---- MODULE Spec2Model ----
(***************************************************************************)
(* Model of the collage engine, backend/app/services/collage.py            *)
(* (create_collage) and of its caller in backend/app/routers/ai.py.        *)
(*                                                                         *)
(* Python floats are IEEE-754 doubles.  A double is modelled exactly, as a *)
(* record [neg, m, e]: m is the magnitude as a string of 15-bit limbs,     *)
(* least significant limb first, odd unless the value is zero, and the     *)
(* value is (-1)^neg * m * 2^e.  Every float operation is the exact        *)
(* operation followed by round-to-nearest-even to 53 significant bits.     *)
(***************************************************************************)
EXTENDS Integers, Sequences, FiniteSets, TLC

\* ------------------------------------------------------------------------
\* Evaluation order: Python evaluates an operand once, before the operation
\* that uses it.  Only({e : x \in {a}}) is e with x standing for the value
\* of a, computed once.
\* ------------------------------------------------------------------------

Only(S) == CHOOSE v \in S : TRUE

\* ------------------------------------------------------------------------
\* Naturals of any width: strings of limbs, least significant limb first
\* ------------------------------------------------------------------------

LimbBits == 15
Base == 2^LimbBits

LimbAt(m, i) == IF i >= 1 /\ i <= Len(m) THEN m[i] ELSE 0

StripHigh(limbs) ==
    Only({IF \A i \in 1..Len(m) : m[i] = 0 THEN <<>>
          ELSE SubSeq(m, 1, CHOOSE i \in 1..Len(m) :
                                m[i] # 0 /\ \A j \in (i + 1)..Len(m) : m[j] = 0) :
          m \in {limbs}})

\* number of bits of x, 0 <= x < Base
SmallBitLen(x) == CHOOSE k \in 0..LimbBits : 2^k > x /\ (k = 0 \/ 2^(k - 1) <= x)

BitLen(m) ==
    IF m = <<>> THEN 0 ELSE LimbBits * (Len(m) - 1) + SmallBitLen(m[Len(m)])

\* number of zero bits below the lowest 1 bit of m, m # <<>>
TrailingZeros(m) ==
    Only({LimbBits * (lo - 1)
            + CHOOSE k \in 0..(LimbBits - 1) : m[lo] % 2^(k + 1) # 0 /\ m[lo] % 2^k = 0 :
          lo \in {CHOOSE i \in 1..Len(m) : m[i] # 0 /\ \A j \in 1..(i - 1) : m[j] = 0}})

ShiftRight(limbs, k) ==
    Only({StripHigh([i \in 1..Len(t) |->
                        (t[i] \div 2^(k % LimbBits))
                        + (LimbAt(t, i + 1) % 2^(k % LimbBits))
                              * 2^(LimbBits - (k % LimbBits))]) :
          t \in {IF k \div LimbBits >= Len(limbs) THEN <<>>
                 ELSE SubSeq(limbs, (k \div LimbBits) + 1, Len(limbs))}})

ShiftLeft(limbs, k) ==
    Only({IF m = <<>> THEN <<>>
          ELSE StripHigh([i \in 1..(k \div LimbBits) |-> 0] \o
                         [i \in 1..(Len(m) + 1) |->
                             ((LimbAt(m, i) * 2^(k % LimbBits)) % Base)
                             + ((LimbAt(m, i - 1) * 2^(k % LimbBits)) \div Base)]) :
          m \in {limbs}})

\* bit i of m, bit 0 the lowest
BitOf(m, i) == (LimbAt(m, (i \div LimbBits) + 1) \div 2^(i % LimbBits)) % 2

\* whether one of the k lowest bits of m is 1
LowBitsSet(m, k) ==
    \/ \E j \in 1..(k \div LimbBits) : LimbAt(m, j) # 0
    \/ LimbAt(m, (k \div LimbBits) + 1) % 2^(k % LimbBits) # 0

Max(x, y) == IF x > y THEN x ELSE y

\* the carry into limb i of a + b: the nearest limb below that is not Base - 1
\* generates one
CarryInto(a, b, i) ==
    IF \E j \in 1..(i - 1) :
           /\ LimbAt(a, j) + LimbAt(b, j) >= Base
           /\ \A k \in (j + 1)..(i - 1) : LimbAt(a, k) + LimbAt(b, k) = Base - 1
    THEN 1 ELSE 0

\* a + b
AddMag(left, right) ==
    Only({StripHigh([i \in 1..(Max(Len(a), Len(b)) + 1) |->
                        (LimbAt(a, i) + LimbAt(b, i) + CarryInto(a, b, i)) % Base]) :
          a \in {left}, b \in {right}})

\* the borrow from limb i of a - b
BorrowFrom(a, b, i) ==
    IF \E j \in 1..(i - 1) :
           /\ LimbAt(a, j) - LimbAt(b, j) < 0
           /\ \A k \in (j + 1)..(i - 1) : LimbAt(a, k) - LimbAt(b, k) <= 0
    THEN 1 ELSE 0

\* a - b for a >= b
SubMag(left, right) ==
    Only({StripHigh([i \in 1..Len(a) |->
                        (LimbAt(a, i) - LimbAt(b, i) - BorrowFrom(a, b, i) + Base) % Base]) :
          a \in {left}, b \in {right}})

\* sign of a - b, for a and b without high zero limbs
CmpMag(left, right) ==
    Only({IF Len(a) # Len(b) THEN (IF Len(a) > Len(b) THEN 1 ELSE -1)
          ELSE IF a = b THEN 0
          ELSE Only({IF a[hi] > b[hi] THEN 1 ELSE -1 :
                     hi \in {CHOOSE i \in 1..Len(a) :
                                 a[i] # b[i] /\ \A j \in (i + 1)..Len(a) : a[j] = b[j]}}) :
          a \in {left}, b \in {right}})

\* a * s for a limb s
MulSmall(limbs, limb) ==
    Only({AddMag(StripHigh([i \in 1..Len(a) |-> (a[i] * s) % Base]),
                 StripHigh([i \in 1..(Len(a) + 1) |-> (LimbAt(a, i - 1) * s) \div Base])) :
          a \in {limbs}, s \in {limb}})

RECURSIVE MulMag(_, _)
MulMag(a, b) ==
    IF b = <<>> \/ a = <<>> THEN <<>>
    ELSE Only({AddMag(MulSmall(a, b[1]), IF rest = <<>> THEN <<>> ELSE <<0>> \o rest) :
               rest \in {MulMag(a, Tail(b))}})

\* the quotient limb estimated from the top limbs of r and den
QuotientEstimate(r, den) ==
    Only({IF est > Base - 1 THEN Base - 1 ELSE est :
          est \in {(LimbAt(r, Len(den) + 1) * Base + LimbAt(r, Len(den)))
                       \div den[Len(den)]}})

\* the estimate qhat corrected, p being qhat * den: the quotient limb is at
\* most 2 below the estimate
Corrected(r, den, qhat, p) ==
    IF CmpMag(p, r) <= 0 THEN [q |-> qhat, rem |-> SubMag(r, p)]
    ELSE Only({IF CmpMag(p1, r) <= 0 THEN [q |-> qhat - 1, rem |-> SubMag(r, p1)]
               ELSE [q |-> qhat - 2, rem |-> SubMag(r, SubMag(p1, den))] :
               p1 \in {SubMag(p, den)}})

\* One step of long division in base Base: r < den * Base, and the top limb of
\* den has its high bit set
DivStep(r, den) ==
    Only({Only({Corrected(r, den, qhat, p0) : p0 \in {MulSmall(den, qhat)}}) :
          qhat \in {QuotientEstimate(r, den)}})

\* the step that brings the limb down into the running remainder rem
BringDown(limb, rem, den) ==
    Only({DivStep(r, den) : r \in {StripHigh(<<limb>> \o rem)}})

\* [q, rem] with num = q * den + rem, bringing down the limbs num[i], ..., num[1]
\* into the running remainder rem; acc holds the quotient's limbs so far,
\* without its high zero limbs
RECURSIVE DivLimbs(_, _, _, _, _)
DivLimbs(num, den, i, rem, acc) ==
    IF i = 0 THEN [q |-> acc, rem |-> rem]
    ELSE Only({Only({DivLimbs(num, den, i - 1, rem2, acc2) :
                     rem2 \in {d.rem},
                     acc2 \in {IF d.q = 0 /\ acc = <<>> THEN <<>> ELSE <<d.q>> \o acc}}) :
               d \in {BringDown(num[i], rem, den)}})

\* the division of n2 by d2, the top limb of d2 having its high bit set: it
\* starts with the skip high limbs of n2, certainly below d2, as the remainder
DivFrom(n2, d2, skip) ==
    Only({[q |-> d.q, exact |-> d.rem = <<>>] :
          d \in {DivLimbs(n2, d2, Len(n2) - skip,
                          SubSeq(n2, Len(n2) - skip + 1, Len(n2)), <<>>)}})

DivAligned(num, den) ==
    Only({DivFrom(n2, d2, IF Len(d2) - 1 < Len(n2) THEN Len(d2) - 1 ELSE Len(n2)) :
          n2 \in {num}, d2 \in {den}})

\* the quotient of num by den and whether it is exact; both are shifted first
\* so that the top limb of den has its high bit set
DivMag(num, den) ==
    Only({DivAligned(ShiftLeft(num, up), ShiftLeft(den, up)) :
          up \in {LimbBits - SmallBitLen(den[Len(den)])}})

ToInt(limbs) ==
    Only({IF m = <<>> THEN 0 ELSE m[1] + Base * LimbAt(m, 2) + Base * Base * LimbAt(m, 3) :
          m \in {limbs}})

Abs(n) == IF n < 0 THEN -n ELSE n

FromNat(n) == StripHigh(<<n % Base, (n \div Base) % Base, n \div (Base * Base)>>)

\* ------------------------------------------------------------------------
\* IEEE-754 doubles
\* ------------------------------------------------------------------------

Mant == 53

FZero == [neg |-> FALSE, m |-> <<>>, e |-> 0]

Canon(neg, limbs, e) ==
    Only({IF h = <<>> THEN FZero
          ELSE Only({[neg |-> neg, m |-> ShiftRight(h, tz), e |-> e + tz] :
                     tz \in {TrailingZeros(h)}}) :
          h \in {StripHigh(limbs)}})

\* d without its drop lowest bits, rounded to nearest, ties to even
RoundOff(d, drop) ==
    Only({Canon(d.neg,
                IF /\ BitOf(d.m, drop - 1) = 1
                   /\ (LowBitsSet(d.m, drop - 1) \/ BitOf(kept, 0) = 1)
                THEN AddMag(kept, <<1>>) ELSE kept,
                d.e + drop) :
          kept \in {ShiftRight(d.m, drop)}})

\* round to nearest, ties to even, to Mant significant bits
Round53(exact) ==
    Only({Only({IF drop <= 0 THEN d ELSE RoundOff(d, drop) :
                drop \in {BitLen(d.m) - Mant}}) :
          d \in {exact}})

FromInt(n) == Canon(n < 0, FromNat(Abs(n)), 0)

FNeg(double) ==
    Only({IF a.m = <<>> THEN a ELSE [a EXCEPT !.neg = ~a.neg] : a \in {double}})

\* a + b for a and b not zero, e being the lower of their exponents
AddAligned(a, b, e) ==
    Only({IF a.neg = b.neg THEN Canon(a.neg, AddMag(ma, mb), e)
          ELSE IF CmpMag(ma, mb) >= 0 THEN Canon(a.neg, SubMag(ma, mb), e)
          ELSE Canon(b.neg, SubMag(mb, ma), e) :
          ma \in {ShiftLeft(a.m, a.e - e)}, mb \in {ShiftLeft(b.m, b.e - e)}})

AddExact(left, right) ==
    Only({IF a.m = <<>> THEN b
          ELSE IF b.m = <<>> THEN a
          ELSE AddAligned(a, b, IF a.e < b.e THEN a.e ELSE b.e) :
          a \in {left}, b \in {right}})

\* MulMag goes through the limbs of its second operand: the shorter one
MulExact(left, right) ==
    Only({Canon(a.neg # b.neg,
                IF Len(a.m) < Len(b.m) THEN MulMag(b.m, a.m) ELSE MulMag(a.m, b.m),
                a.e + b.e) :
          a \in {left}, b \in {right}})

\* a < b
FLess(a, b) == AddExact(a, FNeg(b)).neg

FAdd(a, b) == Round53(AddExact(a, b))
FSub(a, b) == Round53(AddExact(a, FNeg(b)))
FMul(a, b) == Round53(MulExact(a, b))

\* a / b for a and b not zero: the dividend is extended by ext zero limbs, for
\* a quotient of more than Mant + 1 bits, and the quotient gets one more bit
\* that records whether the division left a remainder
DivExtended(a, b, ext) ==
    Only({Round53(Canon(a.neg # b.neg,
                        AddMag(ShiftLeft(d.q, 1), IF d.exact THEN <<>> ELSE <<1>>),
                        a.e - b.e - ext * LimbBits - 1)) :
          d \in {DivMag([i \in 1..ext |-> 0] \o a.m, b.m)}})

\* a / b, b # 0, correctly rounded
FDiv(left, right) ==
    Only({IF a.m = <<>> THEN FZero
          ELSE DivExtended(a, b, ((Mant + 2 + BitLen(b.m)) \div LimbBits) + 1) :
          a \in {left}, b \in {right}})

\* the whole part of the magnitude of d
Whole(d) == IF d.e >= 0 THEN ToInt(ShiftLeft(d.m, d.e)) ELSE ToInt(ShiftRight(d.m, -d.e))

\* int(x): truncation toward zero
Trunc(double) ==
    Only({IF d.neg THEN -Whole(d) ELSE Whole(d) : d \in {double}})

\* the literal p/100 written in decimal (0.35 is Dec(35)): Python reads a
\* literal as the double nearest to it
Dec(p) == FDiv(FromInt(p), FromInt(100))

\* ------------------------------------------------------------------------
\* Bounds of the model
\* ------------------------------------------------------------------------

\* the longest image_urls list
MaxUrls == 8
\* the URLs the object store serves
NumUrls == 4
\* image_urls is a list of at most MaxShort URLs, or a longer list that goes
\* round the first NumCycle URLs
MaxShort == 2
NumCycle == 3
MaxPairFailures == 1
\* the failed fetches of a call with a list of any accepted length
MaxManyFailures == 1
\* the generator has 2^RawBits states
RawBits == 3

\* ai.py line 76: the endpoint accepts at most 20 image URLs
MaxImages == 20

Renders == {1, 2}
Urls == 1..NumUrls
CanvasSizes == {1200, 180, 101}
DefaultBackground == <<245, 245, 245>>
FailKinds == {"transport", "timeout", "status", "decode"}

\* ------------------------------------------------------------------------
\* The environment: what the object store serves, and the generator of the
\* random module
\* ------------------------------------------------------------------------

\* stored width and height, and the EXIF orientation (1 upright, 6 on its side)
Shapes == << [w |-> 800, h |-> 600, exif |-> 1], [w |-> 800, h |-> 600, exif |-> 6],
             [w |-> 500, h |-> 500, exif |-> 1], [w |-> 3000, h |-> 1, exif |-> 1],
             [w |-> 1000, h |-> 700, exif |-> 6], [w |-> 700, h |-> 300, exif |-> 1] >>
Modes == <<"RGBA", "CMYK", "RGB", "P", "L", "LA", "1", "I">>

\* the image behind URL u, as Image.open reads it
Served(u) ==
    [id   |-> u,
     w    |-> Shapes[((u - 1) % Len(Shapes)) + 1].w,
     h    |-> Shapes[((u - 1) % Len(Shapes)) + 1].h,
     exif |-> Shapes[((u - 1) % Len(Shapes)) + 1].exif,
     mode |-> Modes[((u - 1) % Len(Modes)) + 1]]

\* one URL for each shape the store holds
ShapeUrls == 1..Len(Shapes)

CycleList(n) == [k \in 1..n |-> ((k - 1) % NumCycle) + 1]

RECURSIVE SeqsUpTo(_)
SeqsUpTo(n) ==
    IF n = 0 THEN {<<>>}
    ELSE SeqsUpTo(n - 1) \cup {Append(q, u) : q \in {p \in SeqsUpTo(n - 1) : Len(p) = n - 1}, u \in Urls}

UrlLists == SeqsUpTo(MaxShort) \cup {CycleList(n) : n \in 0..MaxUrls}

\* The generator is a deterministic machine of GenMod states: a draw returns
\* the state as its raw value and steps the machine.  MT19937 itself is not
\* modelled; mt42 (below) stands for the state random.seed(42) leaves.
GenMod == 2^RawBits
Raws == 0..(GenMod - 1)
Advance(g) == (5 * g + 3) % GenMod

RECURSIVE AdvanceBy(_, _)
AdvanceBy(g, k) == IF k = 0 THEN g ELSE AdvanceBy(Advance(g), k - 1)

\* a raw value scaled to 0..n-1, both ends reached
RandBelow(n, raw) == (raw * (n - 1)) \div (GenMod - 1)
randint(a, b, raw) == a + RandBelow(b - a + 1, raw)
choice(seq, raw) == seq[RandBelow(Len(seq), raw) + 1]
\* random(): a double in [0, 1)
random(raw) == FDiv(FromInt(raw), FromInt(GenMod))
\* random.uniform(a, b) is a + (b - a) * random()
uniform(a, b, raw) == FAdd(a, FMul(FSub(b, a), random(raw)))

\* ------------------------------------------------------------------------
\* create_collage: the computations
\* ------------------------------------------------------------------------

\* the decimal literals of collage.py, in hundredths, each read once
Literals == {22, 25, 28, 30, 35, 40, 42, 45, 48, 50, 52, 55, 65, 68, 70, 72, 78, 85, 90, 110}
Lit == [p \in Literals |-> Dec(p)]

\* ImageOps.exif_transpose: an image stored on its side is turned upright
exif_transpose(img) ==
    IF img.exif = 6 THEN [img EXCEPT !.w = img.h, !.h = img.w, !.exif = 1] ELSE img

\* lines 62-68: what the fetch loop appends for a payload that decodes
Decoded(img) ==
    LET t == exif_transpose(img)
    IN  IF t.mode \in {"RGBA", "P", "LA", "L"} THEN [t EXCEPT !.mode = "RGB"] ELSE t

FractionSlip(num_images) ==
    IF num_images = 1 THEN 85
    ELSE IF num_images = 2 THEN 65
    ELSE IF num_images < 4 THEN 55
    ELSE IF num_images < 6 THEN 48
    ELSE 42

\* lines 83-92, the fraction in hundredths
BaseFraction(num_images) ==
    IF num_images = 1 THEN 85
    ELSE IF num_images = 2 THEN 65
    ELSE IF num_images <= 4 THEN 55
    ELSE IF num_images <= 6 THEN 48
    ELSE 42

base_size(num_images, canvas_size) ==
    Trunc(FMul(FromInt(canvas_size), Lit[BaseFraction(num_images)]))

LayoutSlip(num_images) ==
    CASE num_images = 2 -> << <<35, 45, -4>>, <<65, 55, 3>> >>
      [] num_images = 3 -> << <<30, 35, -5>>, <<70, 40, 4>>, <<50, 70, -3>> >>
      [] num_images = 4 -> << <<30, 30, -4>>, <<70, 35, 5>>, <<35, 70, 3>>, <<68, 70, -3>> >>
      [] num_images = 5 -> << <<25, 28, -5>>, <<70, 25, 4>>, <<50, 50, -2>>,
                              <<28, 72, 3>>, <<72, 70, -4>> >>
      [] num_images = 6 -> << <<22, 25, -4>>, <<50, 22, 3>>, <<78, 28, -5>>,
                              <<25, 70, 4>>, <<52, 72, -3>>, <<78, 68, 3>> >>

\* lines 99-135: the hand-placed layouts, as <<x, y, rotation>> with x and y
\* the literal factors of canvas_size in hundredths; num_images = 1 is
\* (canvas_size // 2, canvas_size // 2, -3)
FixedLayout(num_images) ==
    CASE num_images = 2 -> << <<35, 45, -4>>, <<65, 55, 3>> >>
      [] num_images = 3 -> << <<30, 35, -5>>, <<70, 40, 4>>, <<50, 70, -3>> >>
      [] num_images = 4 -> << <<30, 30, -4>>, <<70, 35, 5>>, <<35, 70, 3>>, <<68, 68, -3>> >>
      [] num_images = 5 -> << <<25, 28, -5>>, <<70, 25, 4>>, <<50, 50, -2>>,
                              <<28, 72, 3>>, <<72, 70, -4>> >>
      [] num_images = 6 -> << <<22, 25, -4>>, <<50, 22, 3>>, <<78, 28, -5>>,
                              <<25, 70, 4>>, <<52, 72, -3>>, <<78, 68, 3>> >>

Slot(x, y, rotation) == [x |-> x, y |-> y, rotation |-> rotation]

TiltsWithZero == <<-5, -4, -3, -2, 0, 2, 3, 4, 5>>

\* line 144
Tilts == <<-5, -4, -3, -2, 2, 3, 4, 5>>

\* lines 141-142 without the jitter: canvas_size * (0.22 + k * 0.28)
GridCoord(canvas_size, k) ==
    FMul(FromInt(canvas_size), FAdd(Lit[22], FMul(FromInt(k), Lit[28])))

GridIndexes == 0..((MaxImages - 1) \div 3)
GridTable == [c \in CanvasSizes, k \in GridIndexes |-> GridCoord(c, k)]

GridSlotTransposed(canvas_size, i, g) ==
    Slot(FAdd(GridTable[canvas_size, i \div 3], FromInt(randint(-20, 20, g))),
         FAdd(GridTable[canvas_size, i % 3], FromInt(randint(-20, 20, Advance(g)))),
         choice(Tilts, Advance(Advance(g))))

GridSlotYFirst(canvas_size, i, g) ==
    Slot(FAdd(GridTable[canvas_size, i % 3], FromInt(randint(-20, 20, Advance(g)))),
         FAdd(GridTable[canvas_size, i \div 3], FromInt(randint(-20, 20, g))),
         choice(Tilts, Advance(Advance(g))))

\* lines 138-145, the slot of index i (from 0) drawn with the generator in
\* state g: x jitter, then y jitter, then the rotation
GridSlot(canvas_size, i, g) ==
    Slot(FAdd(GridTable[canvas_size, i % 3], FromInt(randint(-20, 20, g))),
         FAdd(GridTable[canvas_size, i \div 3], FromInt(randint(-20, 20, Advance(g)))),
         choice(Tilts, Advance(Advance(g))))

\* the grid slots by canvas size, index and generator state
GridSlots == [c \in CanvasSizes, i \in 0..(MaxImages - 1), g \in Raws |-> GridSlot(c, i, g)]

RangeOffByOne(num_images) == 0..(num_images - 2)

\* line 138: range(num_images)
SlotIndexes(num_images) == 0..(num_images - 1)

\* lines 97-145: the slots, in order, with the generator in state g.  A slot
\* holds x and y as doubles; canvas_size // 2 is an integer, held as the double
\* of the same value.
Positions(num_images, canvas_size, g) ==
    IF num_images = 1
    THEN << Slot(FromInt(canvas_size \div 2), FromInt(canvas_size \div 2), -3) >>
    ELSE IF num_images \in 2..6
    THEN [k \in 1..num_images |->
            Slot(FMul(FromInt(canvas_size), Lit[FixedLayout(num_images)[k][1]]),
                 FMul(FromInt(canvas_size), Lit[FixedLayout(num_images)[k][2]]),
                 FixedLayout(num_images)[k][3])]
    ELSE [k \in 1..Cardinality(SlotIndexes(num_images)) |->
            GridSlots[canvas_size, k - 1, AdvanceBy(g, 3 * (k - 1))]]

\* the hand-placed layouts by count and canvas size
FixedPositions == [n \in 1..6, c \in CanvasSizes |-> Positions(n, c, 0)]

\* the draws lines 97-145 make
LayoutDraws(num_images) ==
    IF num_images \in 1..6 THEN 0 ELSE 3 * Cardinality(SlotIndexes(num_images))

\* line 152, by raw value
SizeVariation == [raw \in Raws |-> uniform(Lit[90], Lit[110], raw)]

\* line 153
target_size(base, raw) == Trunc(FMul(FromInt(base), SizeVariation[raw]))

\* line 156, by image
ImgRatio == [u \in Urls \cup ShapeUrls |-> FDiv(FromInt(Decoded(Served(u)).w), FromInt(Decoded(Served(u)).h))]

ResizeShorter(img, target) ==
    IF FLess(FromInt(1), ImgRatio[img.id])
    THEN [w |-> Trunc(FMul(FromInt(target), ImgRatio[img.id])), h |-> target]
    ELSE [w |-> target, h |-> Trunc(FDiv(FromInt(target), ImgRatio[img.id]))]

\* lines 156-162: the size the image is resized to
ResizeDims(img, target) ==
    IF FLess(FromInt(1), ImgRatio[img.id])
    THEN [w |-> target, h |-> Trunc(FDiv(FromInt(target), ImgRatio[img.id]))]
    ELSE [w |-> Trunc(FMul(FromInt(target), ImgRatio[img.id])), h |-> target]

BaseSizeTable == [n \in 0..MaxImages, c \in CanvasSizes |-> base_size(n, c)]
BaseSizes == {BaseSizeTable[n, c] : n \in 0..MaxImages, c \in CanvasSizes}
TargetTable == [b \in BaseSizes, raw \in Raws |-> target_size(b, raw)]
TargetSizes == {TargetTable[b, raw] : b \in BaseSizes, raw \in Raws}
ResizeTable == [t \in TargetSizes, u \in Urls \cup ShapeUrls |-> ResizeDims(Decoded(Served(u)), t)]

\* add_border, lines 27-31
add_border(img, border_width) ==
    [img EXCEPT !.w = img.w + border_width * 2, !.h = img.h + border_width * 2, !.mode = "RGB"]

\* add_shadow, lines 11-24
add_shadow(img, offset, blur) ==
    [img EXCEPT !.w = img.w + offset + blur * 2, !.h = img.h + offset + blur * 2,
                !.mode = "RGBA"]

\* Image.rotate(angle, expand=True): the box that holds the turned rectangle,
\* w * cos + h * sin rounded up, with cos and sin of 1..5 degrees to 4 decimals
Cos4 == <<9998, 9994, 9986, 9976, 9962>>
Sin4 == <<175, 349, 523, 698, 872>>
CeilDiv(a, b) == (a + b - 1) \div b
rotate(img, angle) ==
    [img EXCEPT !.w = CeilDiv(img.w * Cos4[Abs(angle)] + img.h * Sin4[Abs(angle)], 10000),
                !.h = CeilDiv(img.h * Cos4[Abs(angle)] + img.w * Sin4[Abs(angle)], 10000)]

\* ------------------------------------------------------------------------
\* create_collage: the state
\* ------------------------------------------------------------------------

VARIABLES
    render,     \* per call of create_collage: its arguments, locals and position
    rng,        \* the state of the module-level generator of `random`
    mt42,       \* the state random.seed(42) puts the generator in
    running     \* the call the event loop is executing between two awaits, 0 if none

vars == <<render, rng, mt42, running>>

NoImagesMessage == "No images could be downloaded"
ResizeMessage == "height and width must be > 0"

\* a call not yet made
Idle ==
    [pc |-> "idle", image_urls |-> <<>>, columns |-> 2, canvas_size |-> 1200,
     background_color |-> DefaultBackground, idx |-> 0, images |-> <<>>,
     outcomes |-> <<>>, warnings |-> <<>>, num_images |-> 0, base_size |-> 0,
     positions |-> <<>>, draws |-> <<>>, processed_images |-> <<>>,
     canvas |-> <<>>, result |-> <<>>, error |-> "", rng_at_seed |-> 0,
     amid |-> {}]

Init ==
    /\ render = [r \in Renders |-> Idle]
    /\ rng = 0
    /\ mt42 \in Raws
    /\ running = 0

Prepended(images, img) == <<img>> \o images

\* line 69: images.append(img)
Collected(images, img) == Append(images, img)

NeverEmpty(images) == FALSE

\* line 74: not images
NoImages(images) == images = <<>>

NumRequested(me) == Len(me.image_urls)

\* line 77: len(images)
NumImages(me) == Len(me.images)

NoSeed(g) == g

\* random.seed(42) with the generator in state g
seed(g) == mt42

AnyTime(r) == TRUE

\* The event loop starts or resumes a call at an await only when no call is
\* running: a call runs from one await to the next (line 60, and the entry
\* and exit of the client block of line 56) or to its end.
Resumable(r) == running = 0

\* lines 34-54: the call is made and the client opened
Start(r, urls, cols, size, bg) ==
    /\ Resumable(r)
    /\ render[r].pc = "idle"
    /\ render' = [render EXCEPT ![r] =
            [@ EXCEPT !.pc = IF urls = <<>> THEN "closing" ELSE "fetching",
                      !.image_urls = urls, !.columns = cols, !.canvas_size = size,
                      !.background_color = bg, !.idx = 1]]
    /\ UNCHANGED <<rng, mt42, running>>

RetryOnce(me) ==
    IF me.outcomes # <<>> /\ me.outcomes[Len(me.outcomes)] = "failed"
                         /\ Len(me.outcomes) = me.idx
    THEN me
    ELSE IF me.idx < Len(me.image_urls) THEN [me EXCEPT !.idx = @ + 1]
    ELSE [me EXCEPT !.pc = "closing"]

\* lines 57 and 72: the loop goes to the next URL, or leaves the client block
NextUrl(me) ==
    IF me.idx < Len(me.image_urls) THEN [me EXCEPT !.idx = @ + 1]
    ELSE [me EXCEPT !.pc = "closing"]

\* lines 56-69: the response arrived, had a success status and decoded
FetchOk(r) ==
    /\ Resumable(r)
    /\ render[r].pc = "fetching"
    /\ LET me == render[r]
           img == [id |-> Decoded(Served(me.image_urls[me.idx])).id,
                   w |-> Decoded(Served(me.image_urls[me.idx])).w,
                   h |-> Decoded(Served(me.image_urls[me.idx])).h,
                   mode |-> Decoded(Served(me.image_urls[me.idx])).mode,
                   ref |-> me.idx]
       IN  render' = [render EXCEPT ![r] =
               NextUrl([me EXCEPT !.images = Collected(@, img),
                                  !.outcomes = Append(@, "ok")])]
    /\ UNCHANGED <<rng, mt42, running>>

\* lines 70-72: the get, raise_for_status or Image.open raised; whatever was
\* raised, the handler logs a warning for the URL and the loop goes on
FetchFail(r, kind) ==
    /\ Resumable(r)
    /\ kind \in FailKinds
    /\ render[r].pc = "fetching"
    /\ LET me == render[r]
       IN  render' = [render EXCEPT ![r] =
               NextUrl([me EXCEPT !.warnings = Append(@, me.idx),
                                  !.outcomes = Append(@, "failed")])]
    /\ UNCHANGED <<rng, mt42, running>>

\* lines 74-145, after the client has closed: the check for no images, the
\* canvas, the base size, the seeding and the slots
Plan(r) ==
    /\ Resumable(r)
    /\ render[r].pc = "closing"
    /\ LET me == render[r]
           n == NumImages(me)
           g == seed(rng)
       IN  IF NoImages(me.images)
           THEN /\ render' = [render EXCEPT ![r] =
                        [me EXCEPT !.pc = "failed", !.error = NoImagesMessage]]
                /\ UNCHANGED <<rng, running>>
           ELSE /\ render' = [render EXCEPT ![r] =
                        [me EXCEPT !.pc = IF me.images = <<>> THEN "place" ELSE "transform",
                                   !.idx = 1, !.num_images = n,
                                   !.canvas = << [mode |-> "RGBA",
                                                  size |-> me.canvas_size,
                                                  background |-> me.background_color,
                                                  layers |-> <<>>] >>,
                                   !.rng_at_seed = rng,
                                   !.amid = {b \in Renders :
                                                render[b].pc \in {"fetching", "closing"}}
                                            \ {r},
                                   !.base_size = BaseSizeTable[n, me.canvas_size],
                                   !.positions =
                                        IF n \in 1..6 THEN FixedPositions[n, me.canvas_size]
                                        ELSE Positions(n, me.canvas_size, g),
                                   !.draws = [j \in 1..LayoutDraws(n) |->
                                                AdvanceBy(g, j - 1)]]]
                /\ rng' = AdvanceBy(g, LayoutDraws(n))
                /\ running' = r
    /\ UNCHANGED mt42

\* lines 164-172: the image resized to dims, with its border, as RGBA
Framed(img, dims, target) ==
    Only({[id |-> img.id, ref |-> img.ref, w |-> img_bordered.w, h |-> img_bordered.h,
           mode |-> "RGBA", target |-> target, new_width |-> dims.w,
           new_height |-> dims.h] :
          img_bordered \in {add_border([img EXCEPT !.w = dims.w, !.h = dims.h], 6)}})

\* lines 150-172, one turn of the loop: the size draw, the resize, the border
Transform(r) ==
    /\ running = r
    /\ render[r].pc = "transform"
    /\ LET me == render[r]
           img == me.images[me.idx]
           target == TargetTable[me.base_size, rng]
           dims == ResizeTable[target, img.id]
           done == Framed(img, dims, target)
       IN  IF dims.w < 1 \/ dims.h < 1
           THEN /\ render' = [render EXCEPT ![r] =
                        [me EXCEPT !.pc = "failed", !.error = ResizeMessage,
                                   !.draws = Append(@, rng)]]
                /\ running' = 0
           ELSE /\ render' = [render EXCEPT ![r] =
                        [me EXCEPT !.processed_images = Append(@, done),
                                   !.draws = Append(@, rng),
                                   !.idx = IF me.idx < Len(me.images) THEN me.idx + 1 ELSE 1,
                                   !.pc = IF me.idx < Len(me.images) THEN "transform"
                                          ELSE "place"]]
                /\ UNCHANGED running
    /\ rng' = Advance(rng)
    /\ UNCHANGED mt42

PasteUnder(canvas, layer) == [canvas EXCEPT !.layers = <<layer>> \o @]

PasteGrowing(canvas, layer) ==
    [canvas EXCEPT !.layers = Append(@, layer),
                   !.size = Max(@, Max(layer.paste_x + layer.w, layer.paste_y + layer.h))]

\* line 196, canvas.paste: the layer goes over what the canvas holds, and the
\* canvas keeps its size, whatever part of the layer falls outside it
paste(canvas, layer) == [canvas EXCEPT !.layers = Append(@, layer)]

\* lines 183-189: the image turned, with its shadow
Shadowed(img, rotation) ==
    add_shadow(IF rotation # 0 THEN rotate(img, rotation) ELSE img, 6, 12)

LayerAtCorner(img, pos, slot) ==
    Only({[id |-> img.id, ref |-> img.ref, slot |-> slot,
           x |-> x, y |-> y, rotation |-> pos.rotation,
           w |-> img_with_shadow.w, h |-> img_with_shadow.h,
           paste_x |-> x, paste_y |-> y, mask |-> img_with_shadow.id] :
          x \in {Trunc(pos.x)}, y \in {Trunc(pos.y)},
          img_with_shadow \in {Shadowed(img, pos.rotation)}})

\* lines 179-196: what is pasted for the image at the slot pos, where, and
\* through which mask (the third argument of canvas.paste, the image itself)
Layer(img, pos, slot) ==
    Only({[id |-> img.id, ref |-> img.ref, slot |-> slot,
           x |-> x, y |-> y, rotation |-> pos.rotation,
           w |-> img_with_shadow.w, h |-> img_with_shadow.h,
           paste_x |-> x - img_with_shadow.w \div 2,
           paste_y |-> y - img_with_shadow.h \div 2,
           mask |-> img_with_shadow.id] :
          x \in {Trunc(pos.x)}, y \in {Trunc(pos.y)},
          img_with_shadow \in {Shadowed(img, pos.rotation)}})

\* lines 175-197, one turn of the loop: the guard, the rotation, the shadow
\* and the paste
Place(r) ==
    /\ running = r
    /\ render[r].pc = "place"
    /\ render[r].idx <= Len(render[r].processed_images)
    /\ LET me == render[r]
           img == me.processed_images[me.idx]
           layer == Layer(img, me.positions[me.idx], me.idx)
       IN  IF me.idx > Len(me.positions)
           THEN render' = [render EXCEPT ![r] =
                    [me EXCEPT !.idx = Len(me.processed_images) + 1]]
           ELSE render' = [render EXCEPT ![r] =
                    [me EXCEPT !.canvas = << paste(me.canvas[1], layer) >>,
                               !.idx = @ + 1]]
    /\ UNCHANGED <<rng, mt42, running>>

\* what a pasted layer puts on the canvas: which picture, how big, turned by
\* how much, and where
Pixels(layers) ==
    [k \in 1..Len(layers) |->
        [id |-> layers[k].id, rotation |-> layers[k].rotation,
         w |-> layers[k].w, h |-> layers[k].h,
         paste_x |-> layers[k].paste_x, paste_y |-> layers[k].paste_y]]

\* lines 199-206: the bytes returned for a canvas
Encoded(canvas) ==
    [format |-> "JPEG", quality |-> 92, mode |-> "RGB", size |-> canvas.size,
     background |-> canvas.background, pixels |-> Pixels(canvas.layers)]

\* lines 199-209: the canvas is flattened on the background and encoded
Encode(r) ==
    /\ running = r
    /\ render[r].pc = "place"
    /\ render[r].idx > Len(render[r].processed_images)
    /\ LET me == render[r]
       IN  render' = [render EXCEPT ![r] =
               [me EXCEPT !.pc = "done",
                          !.result = << Encoded(me.canvas[1]) >>]]
    /\ running' = 0
    /\ UNCHANGED <<rng, mt42>>

\* the steps of a call once made
Step(r) ==
    \/ FetchOk(r)
    \/ \E kind \in FailKinds : FetchFail(r, kind)
    \/ Plan(r)
    \/ Transform(r)
    \/ Place(r)
    \/ Encode(r)

\* one call, as create_collage_endpoint (ai.py line 80) makes it: the URL list
\* and the default columns, the canvas size free
Next ==
    \/ \E urls \in UrlLists, size \in CanvasSizes :
            Start(1, urls, 2, size, DefaultBackground)
    \/ Step(1)

Spec == Init /\ [][Next]_vars

\* two calls on one event loop, each with at most MaxPairFailures failed fetches
PairLists == {<<1>>, <<2, 1>>, CycleList(MaxUrls - 1)}
PairSizes == {1200}

NextPair ==
    \E r \in Renders :
        \/ \E urls \in PairLists, size \in PairSizes :
                Start(r, urls, 2, size, DefaultBackground)
        \/ FetchOk(r)
        \/ \E kind \in FailKinds :
                Len(render[r].warnings) < MaxPairFailures /\ FetchFail(r, kind)
        \/ Plan(r)
        \/ Transform(r)
        \/ Place(r)
        \/ Encode(r)

SpecPair == Init /\ [][NextPair]_vars

\* the lists create_collage_endpoint lets through (ai.py lines 73-77): one to
\* MaxImages URLs
ManyLists == {CycleList(n) : n \in 1..MaxImages}

\* one call as the endpoint makes it, for a list of any accepted length, with
\* at most MaxManyFailures failed fetches
NextMany ==
    \/ \E urls \in ManyLists : Start(1, urls, 2, 1200, DefaultBackground)
    \/ FetchOk(1)
    \/ \E kind \in FailKinds :
            Len(render[1].warnings) < MaxManyFailures /\ FetchFail(1, kind)
    \/ Plan(1)
    \/ Transform(1)
    \/ Place(1)
    \/ Encode(1)

SpecMany == Init /\ [][NextMany]_vars

\* the densities the docstring names (line 45): 2 sparse, 3 medium, 4 dense
Columns == {2, 3, 4}

ColumnLists == {<<1, 2>>, CycleList(MaxUrls - 1)}

\* two calls on one event loop, the first with the default columns, the
\* second with any of the densities (ai.py line 80 passes request.columns)
NextColumns ==
    \E r \in Renders :
        \/ \E urls \in ColumnLists, cols \in (IF r = 1 THEN {2} ELSE Columns) :
                Start(r, urls, cols, 1200, DefaultBackground)
        \/ FetchOk(r)
        \/ \E kind \in FailKinds :
                Len(render[r].warnings) < MaxPairFailures /\ FetchFail(r, kind)
        \/ Plan(r)
        \/ Transform(r)
        \/ Place(r)
        \/ Encode(r)

SpecColumns == Init /\ [][NextColumns]_vars

\* lists of one or two URLs over every shape the store holds, and a list of
\* a landscape, a square and a portrait image
ShapeLists ==
    {<<u>> : u \in ShapeUrls} \cup {<<u, v>> : u, v \in ShapeUrls} \cup {<<1, 3, 5>>}

\* one call as the endpoint makes it, for images of every stored shape, with
\* at most MaxManyFailures failed fetches
NextShapes ==
    \/ \E urls \in ShapeLists, size \in CanvasSizes :
            Start(1, urls, 2, size, DefaultBackground)
    \/ FetchOk(1)
    \/ \E kind \in FailKinds :
            Len(render[1].warnings) < MaxManyFailures /\ FetchFail(1, kind)
    \/ Plan(1)
    \/ Transform(1)
    \/ Place(1)
    \/ Encode(1)

SpecShapes == Init /\ [][NextShapes]_vars

\* ------------------------------------------------------------------------
\* Properties
\* ------------------------------------------------------------------------

\* the call has left the fetch loop
Fetched(r) == render[r].pc \notin {"idle", "fetching"}

\* the call has planned its layout
Planned(r) == render[r].pc \in {"transform", "place", "done"}

\* the references a call found failing, and those it found good
FailedRefs(r) == {i \in 1..Len(render[r].outcomes) : render[r].outcomes[i] # "ok"}
GoodRefs(r) == {i \in 1..Len(render[r].outcomes) : render[r].outcomes[i] = "ok"}

SameInputs(a, b) ==
    /\ render[a].image_urls = render[b].image_urls
    /\ render[a].outcomes = render[b].outcomes
    /\ render[a].canvas_size = render[b].canvas_size
    /\ render[a].background_color = render[b].background_color

\* C1: two renders with the same URL list, the same outcome of every fetch, the
\* same canvas size and the same background colour have the same slot list,
\* and, once both have ended, the same size-variation draws and the same
\* output (or the same error), wherever the shared generator stood when each
\* of them seeded it.
C1_Deterministic ==
    \A a, b \in Renders :
        /\ (Fetched(a) /\ Fetched(b) /\ SameInputs(a, b) /\ Planned(a) /\ Planned(b))
                => /\ render[a].positions = render[b].positions
                   /\ render[a].base_size = render[b].base_size
        /\ (SameInputs(a, b) /\ render[a].pc \in {"done", "failed"}
                             /\ render[b].pc \in {"done", "failed"})
                => /\ render[a].draws = render[b].draws
                   /\ render[a].processed_images = render[b].processed_images
                   /\ render[a].result = render[b].result
                   /\ render[a].error = render[b].error

\* two finished renders of the same more-than-six images, seeded with the
\* generator in different positions
C1_Witness ==
    /\ render[1].pc = "done" /\ render[2].pc = "done"
    /\ SameInputs(1, 2)
    /\ render[1].num_images > 6
    /\ render[1].rng_at_seed # render[2].rng_at_seed

\* C3: the images the fetch loop has collected are those of the references
\* that succeeded, each once, in the order of the references.
C3_OrderPreserved ==
    \A r \in Renders :
        LET me == render[r]
        IN  /\ Len(me.images) = Cardinality(GoodRefs(r))
            /\ \A k \in 1..Len(me.images) :
                    /\ me.images[k].ref \in GoodRefs(r)
                    /\ Cardinality({i \in GoodRefs(r) : i < me.images[k].ref}) = k - 1
                    /\ me.images[k].id = me.image_urls[me.images[k].ref]

\* a fetch loop that ended with failures before, between and after two kept images
C3_Witness ==
    /\ Fetched(1)
    /\ Len(render[1].images) >= 2
    /\ \E i, j, k \in FailedRefs(1) :
            /\ i < render[1].images[1].ref
            /\ render[1].images[1].ref < j /\ j < render[1].images[2].ref
            /\ render[1].images[Len(render[1].images)].ref < k

\* C4: a render whose fetch loop ended with no image (every fetch failed, or
\* there was no reference) has no canvas, has drawn nothing from the
\* generator, has pasted nothing and has no bytes; it ends with the
\* no-images error and nothing else.
C4_NoImagesNoWrite ==
    \A r \in Renders :
        (Fetched(r) /\ render[r].images = <<>>)
            => /\ render[r].pc \in {"closing", "failed"}
               /\ render[r].pc = "failed" => render[r].error = NoImagesMessage
               /\ render[r].canvas = <<>>
               /\ render[r].draws = <<>>
               /\ render[r].positions = <<>>
               /\ render[r].processed_images = <<>>
               /\ render[r].result = <<>>
               /\ running # r

\* a render of several references, all failed, that has ended
C4_Witness ==
    /\ render[1].pc = "failed"
    /\ render[1].error = NoImagesMessage
    /\ Len(render[1].image_urls) >= 2
    /\ FailedRefs(1) = 1..Len(render[1].image_urls)

\* the slot table of the layout planner as the specification prints it, as
\* <<x_fraction, y_fraction, rotation>> with the fractions in hundredths
SpecSlotTable ==
    << << <<50, 50, -3>> >>,
       << <<35, 45, -4>>, <<65, 55, 3>> >>,
       << <<30, 35, -5>>, <<70, 40, 4>>, <<50, 70, -3>> >>,
       << <<30, 30, -4>>, <<70, 35, 5>>, <<35, 70, 3>>, <<68, 68, -3>> >>,
       << <<25, 28, -5>>, <<70, 25, 4>>, <<50, 50, -2>>, <<28, 72, 3>>, <<72, 70, -4>> >>,
       << <<22, 25, -4>>, <<50, 22, 3>>, <<78, 28, -5>>, <<25, 70, 4>>, <<52, 72, -3>>,
          <<78, 68, 3>> >> >>

\* the slots of the printed table on a canvas of size c, as doubles
SpecSlots ==
    [n \in 1..6, c \in CanvasSizes |->
        [k \in 1..n |-> [x |-> FMul(FromInt(c), Lit[SpecSlotTable[n][k][1]]),
                         y |-> FMul(FromInt(c), Lit[SpecSlotTable[n][k][2]]),
                         rotation |-> SpecSlotTable[n][k][3]]]]

\* the same with the centre truncated to integers
SpecCentres ==
    [n \in 1..6, c \in CanvasSizes |->
        [k \in 1..n |-> [x |-> Trunc(SpecSlots[n, c][k].x),
                         y |-> Trunc(SpecSlots[n, c][k].y),
                         rotation |-> SpecSlots[n, c][k].rotation]]]

\* a planned slot with its centre truncated
Centre(slot) == [x |-> Trunc(slot.x), y |-> Trunc(slot.y), rotation |-> slot.rotation]

\* where a layer was pasted: centre and rotation
LayerCentre(layer) == [x |-> layer.x, y |-> layer.y, rotation |-> layer.rotation]

Layers(r) == IF render[r].canvas = <<>> THEN <<>> ELSE render[r].canvas[1].layers

\* the k-th smallest member of a set of numbers
RankIn(S, k) == CHOOSE i \in S : Cardinality({j \in S : j < i}) = k - 1

\* a call given five references, one of which failed
OneOfFiveFailed(r) ==
    /\ Fetched(r)
    /\ Len(render[r].image_urls) = 5
    /\ Cardinality(FailedRefs(r)) = 1

C5_SurvivorsComposite ==
    \A r \in Renders :
        (render[r].pc \in {"done", "failed"} /\ FailedRefs(r) # {}
                                             /\ render[r].images # <<>>)
            => /\ render[r].pc = "done"
               /\ render[r].error = ""
               /\ render[r].result # <<>>
               /\ Len(render[r].result[1].pixels) = Len(render[r].images)
               /\ {render[r].warnings[k] : k \in 1..Len(render[r].warnings)} = FailedRefs(r)

\* C6: the planner gives every surviving image one slot; the k-th image
\* pasted is the k-th survivor, at slot k; a render that returns has pasted
\* min(survivors, slots) images; the guard of the placement loop never finds
\* an image without a slot.
C6_SlotPerSurvivor ==
    \A r \in Renders :
        /\ Planned(r) => Len(render[r].positions) = Len(render[r].images)
        /\ \A k \in 1..Len(Layers(r)) :
                /\ Layers(r)[k].slot = k
                /\ Layers(r)[k].ref = render[r].images[k].ref
                /\ Layers(r)[k].id = render[r].images[k].id
                /\ LayerCentre(Layers(r)[k]) = Centre(render[r].positions[k])
        /\ render[r].pc = "done"
                => Len(Layers(r)) = IF Len(render[r].images) < Len(render[r].positions)
                                    THEN Len(render[r].images)
                                    ELSE Len(render[r].positions)
        /\ (render[r].pc = "place" /\ render[r].idx <= Len(render[r].processed_images))
                => render[r].idx <= Len(render[r].positions)

\* a finished render of more than six survivors, with a failed fetch among
\* its references
C6_Witness ==
    /\ render[1].pc = "done"
    /\ Len(render[1].images) > 6
    /\ FailedRefs(1) # {}
    /\ Len(Layers(1)) = Len(render[1].images)

\* C7: for 1 to 6 surviving images the slots are those of the printed table,
\* in order: for 2 to 6 images x and y are the printed fractions of
\* canvas_size, for every count the centre used at paste time is the
\* truncation of the printed fraction of canvas_size, with the printed
\* rotation.
C7_SlotTable ==
    \A r \in Renders :
        (Planned(r) /\ render[r].num_images \in 1..6)
            => /\ Len(render[r].positions) = render[r].num_images
               /\ \A k \in 1..Len(render[r].positions) :
                    /\ Centre(render[r].positions[k])
                          = SpecCentres[render[r].num_images, render[r].canvas_size][k]
                    /\ render[r].num_images > 1
                          => render[r].positions[k]
                                = SpecSlots[render[r].num_images, render[r].canvas_size][k]
               /\ \A k \in 1..Len(Layers(r)) :
                    LayerCentre(Layers(r)[k])
                        = SpecCentres[render[r].num_images, render[r].canvas_size][k]

\* a finished render of one image on a canvas of odd size
C7_Witness ==
    /\ render[1].pc = "done"
    /\ render[1].num_images = 1
    /\ render[1].canvas_size % 2 = 1
    /\ Len(Layers(1)) = 1

\* the base size fractions as the specification prints them, in hundredths
SpecFraction(n) ==
    CASE n = 1 -> 85
      [] n = 2 -> 65
      [] n \in 3..4 -> 55
      [] n \in 5..6 -> 48
      [] n > 6 -> 42

SpecBase == [n \in 1..MaxImages, c \in CanvasSizes |-> Trunc(FMul(FromInt(c), Lit[SpecFraction(n)]))]

\* C8: the base size is the truncation of canvas_size times the printed
\* fraction for the number of surviving images, whatever the number of
\* references was.
C8_BaseSize ==
    \A r \in Renders :
        Planned(r)
            => /\ render[r].num_images = Len(render[r].images)
               /\ render[r].base_size = SpecBase[render[r].num_images, render[r].canvas_size]

\* a render of five references planned for its four survivors
C8_Witness ==
    /\ Planned(1)
    /\ Len(render[1].image_urls) = 5
    /\ render[1].num_images = 4
    /\ render[1].base_size = 660

\* C9: with more than six surviving images, the rotation of every slot, and
\* of every image pasted, is one of -5, -4, -3, -2, 2, 3, 4, 5.
C9_Rotations ==
    \A r \in Renders :
        (Planned(r) /\ render[r].num_images > 6)
            => /\ \A k \in 1..Len(render[r].positions) :
                    render[r].positions[k].rotation \in {-5, -4, -3, -2, 2, 3, 4, 5}
               /\ \A k \in 1..Len(Layers(r)) :
                    Layers(r)[k].rotation \in {-5, -4, -3, -2, 2, 3, 4, 5}

\* a grid layout whose draws gave both -2 and 2
C9_Witness ==
    /\ Planned(1)
    /\ render[1].num_images > 6
    /\ \E j, k \in 1..Len(render[1].positions) :
            render[1].positions[j].rotation = -2 /\ render[1].positions[k].rotation = 2

\* canvas_size * (0.22 + k * 0.28) plus each jitter from -20 to 20
Jittered ==
    [c \in CanvasSizes, k \in GridIndexes |->
        {FAdd(FMul(FromInt(c), FAdd(Lit[22], FMul(FromInt(k), Lit[28]))), FromInt(j)) :
            j \in -20..20}]

\* C10: with more than six surviving images, the slot of index i has for x
\* the grid value of column i mod 3 plus a whole jitter from -20 to 20, and
\* for y the grid value of row i div 3 plus a whole jitter from -20 to 20.
C10_Grid ==
    \A r \in Renders :
        (Planned(r) /\ render[r].num_images > 6)
            => /\ Len(render[r].positions) = render[r].num_images
               /\ \A i \in 0..(Len(render[r].positions) - 1) :
                    /\ render[r].positions[i + 1].x \in Jittered[render[r].canvas_size, i % 3]
                    /\ render[r].positions[i + 1].y
                            \in Jittered[render[r].canvas_size, i \div 3]

\* a grid layout of eight images or more, with the jitter -20 on the x of one
\* slot and the jitter 20 on the y of a slot of the third row
C10_Witness ==
    /\ Planned(1)
    /\ render[1].num_images > 7
    /\ \E i \in 0..(Len(render[1].positions) - 1), j \in 6..(Len(render[1].positions) - 1) :
            /\ render[1].positions[i + 1].x
                    = FAdd(GridTable[render[1].canvas_size, i % 3], FromInt(-20))
            /\ render[1].positions[j + 1].y
                    = FAdd(GridTable[render[1].canvas_size, j \div 3], FromInt(20))

\* two layers share a part of the plane
Overlap(a, b) ==
    /\ a.paste_x < b.paste_x + b.w /\ b.paste_x < a.paste_x + a.w
    /\ a.paste_y < b.paste_y + b.h /\ b.paste_y < a.paste_y + a.h

\* C11: the images are pasted in the order in which they survived the fetch:
\* the k-th layer from the bottom of the canvas is the k-th survivor, so of
\* two survivors the later one lies above the earlier one, whatever their
\* sizes and rotations; a paste only adds a layer on top of those there, and
\* the output holds the layers in the same order.
C11_PasteOrder ==
    \A r \in Renders :
        /\ \A k \in 1..Len(Layers(r)) :
                /\ Layers(r)[k].ref = render[r].images[k].ref
                /\ Layers(r)[k].ref = RankIn(GoodRefs(r), k)
        /\ \A j, k \in 1..Len(Layers(r)) :
                j < k => Layers(r)[j].ref < Layers(r)[k].ref
        /\ render[r].pc = "done"
                => \A k \in 1..Len(Layers(r)) :
                        render[r].result[1].pixels[k].id = Layers(r)[k].id

\* a finished render in which a larger image was pasted before a smaller one
\* that overlaps it, and a smaller before a larger that overlaps it
C11_Witness ==
    /\ render[1].pc = "done"
    /\ \E i, j, k \in 1..Len(Layers(1)) :
            /\ i < j /\ j < k
            /\ Overlap(Layers(1)[i], Layers(1)[j]) /\ Overlap(Layers(1)[j], Layers(1)[k])
            /\ Layers(1)[i].w * Layers(1)[i].h > Layers(1)[j].w * Layers(1)[j].h
            /\ Layers(1)[j].w * Layers(1)[j].h < Layers(1)[k].w * Layers(1)[k].h
            /\ Layers(1)[i].rotation > Layers(1)[j].rotation
            /\ Layers(1)[j].rotation < Layers(1)[k].rotation

\* the layer lies on the canvas in part only, or not at all
PartlyOutside(layer, size) ==
    \/ layer.paste_x < 0 \/ layer.paste_y < 0
    \/ layer.paste_x + layer.w > size \/ layer.paste_y + layer.h > size

WhollyOutside(layer, size) ==
    \/ layer.paste_x + layer.w <= 0 \/ layer.paste_y + layer.h <= 0
    \/ layer.paste_x >= size \/ layer.paste_y >= size

\* C12: for every number of survivors from 1 to 20, the canvas has the size
\* canvas_size by canvas_size from its creation on, whatever is pasted and
\* wherever, and the encoded result is an RGB image, without alpha, of
\* exactly that size.
C12_OutputSize ==
    \A r \in Renders :
        /\ render[r].canvas # <<>> => render[r].canvas[1].size = render[r].canvas_size
        /\ render[r].pc = "done"
                => /\ render[r].num_images \in 1..MaxImages
                   /\ render[r].result[1].size = render[r].canvas_size
                   /\ render[r].result[1].mode = "RGB"

\* a finished render of 20 survivors in which one layer lies partly on the
\* canvas and another wholly outside it
C12_Witness ==
    /\ render[1].pc = "done"
    /\ render[1].num_images = MaxImages
    /\ \E j, k \in 1..Len(Layers(1)) :
            /\ PartlyOutside(Layers(1)[j], render[1].canvas_size)
            /\ ~WhollyOutside(Layers(1)[j], render[1].canvas_size)
            /\ WhollyOutside(Layers(1)[k], render[1].canvas_size)

\* What a call produces when it runs alone, from what its fetch loop left:
\* the generator starts from the state random.seed(42) gives and nothing else
\* draws from it.
AloneSlots(me) ==
    IF Len(me.images) \in 1..6 THEN FixedPositions[Len(me.images), me.canvas_size]
    ELSE Positions(Len(me.images), me.canvas_size, mt42)

\* its j-th draw
AloneDraw(j) == AdvanceBy(mt42, j - 1)

AloneDraws(me) ==
    [j \in 1..(LayoutDraws(Len(me.images)) + Len(me.images)) |-> AloneDraw(j)]

AloneTarget(me, k) ==
    TargetTable[BaseSizeTable[Len(me.images), me.canvas_size],
                AloneDraw(LayoutDraws(Len(me.images)) + k)]

\* its k-th image, transformed
AloneFramed(me, k) ==
    Only({Framed(me.images[k], ResizeTable[target, me.images[k].id], target) :
          target \in {AloneTarget(me, k)}})

\* its k-th layer
AloneLayer(me, slots, k) == Layer(AloneFramed(me, k), slots[k], k)

AloneLayers(me) ==
    Only({[k \in 1..Len(me.images) |-> AloneLayer(me, slots, k)] :
          slots \in {AloneSlots(me)}})

AloneResult(me) ==
    Encoded([mode |-> "RGBA", size |-> me.canvas_size, background |-> me.background_color,
             layers |-> AloneLayers(me)])

\* C13: calls that run interleaved on one event loop do not interact: the
\* slots of each, its draws, the images it has transformed, the layers it
\* has pasted and its output are those it produces when it runs alone,
\* wherever the other calls left the generator they share.
C13_NoInteraction ==
    \A r \in Renders :
        Planned(r)
            => /\ render[r].positions = AloneSlots(render[r])
               /\ render[r].draws = SubSeq(AloneDraws(render[r]), 1, Len(render[r].draws))
               /\ \A k \in 1..Len(render[r].processed_images) :
                    render[r].processed_images[k] = AloneFramed(render[r], k)
               /\ \A k \in 1..Len(Layers(r)) :
                    Layers(r)[k] = AloneLayer(render[r], render[r].positions, k)
               /\ render[r].pc = "done"
                    => /\ render[r].result = << AloneResult(render[r]) >>
                       /\ render[r].draws = AloneDraws(render[r])

\* two finished renders of different lists, the first of which seeded the
\* generator and drew from it while the second was in its fetch loop, so that
\* the second found the generator where the first left it
C13_Witness ==
    /\ render[1].pc = "done" /\ render[2].pc = "done"
    /\ render[1].image_urls # render[2].image_urls
    /\ 2 \in render[1].amid
    /\ render[1].num_images > 6
    /\ render[2].num_images > 1
    /\ render[2].rng_at_seed # mt42
    /\ render[2].rng_at_seed # render[1].rng_at_seed

\* the references whose request has ended, by the images and the warnings
\* they left
Requested(r) ==
    [k \in 1..Len(render[r].images) |-> render[r].images[k].ref] \o render[r].warnings

\* C14: there is no retry: the requests that have ended are those of the
\* references before the current one, one request each, in list order
\* whatever their outcomes; a reference whose request failed has left one
\* warning and no image, and is not requested again; when the loop ends
\* every reference has been requested once.
C14_NoRetry ==
    \A r \in Renders :
        /\ render[r].pc = "fetching"
                => /\ render[r].idx \in 1..Len(render[r].image_urls)
                   /\ Len(render[r].outcomes) = render[r].idx - 1
        /\ Fetched(r) => Len(render[r].outcomes) = Len(render[r].image_urls)
        /\ Len(Requested(r)) = Len(render[r].outcomes)
        /\ \A i \in 1..Len(render[r].outcomes) :
                Cardinality({k \in 1..Len(Requested(r)) : Requested(r)[k] = i}) = 1
        /\ \A j, k \in 1..Len(render[r].warnings) :
                j < k => render[r].warnings[j] < render[r].warnings[k]
        /\ \A k \in 1..Len(render[r].warnings) : render[r].warnings[k] \in FailedRefs(r)

\* a fetch loop in which the same URL failed for one reference, succeeded for
\* the next reference to it, and the loop ended on a failure
C14_Witness ==
    /\ Fetched(1)
    /\ \E i, j \in 1..Len(render[1].image_urls) :
            /\ i < j
            /\ render[1].image_urls[i] = render[1].image_urls[j]
            /\ i \in FailedRefs(1) /\ j \in GoodRefs(1)
    /\ Len(render[1].image_urls) \in FailedRefs(1)

\* C15 as stated: every image that survives the fetch stage is in opaque RGB
\* colour mode, whatever the colour mode of the decoded payload was.
C15_SurvivorsRGB ==
    \A r \in Renders :
        \A k \in 1..Len(render[r].images) : render[r].images[k].mode = "RGB"

\* the target sizes of the images a call has transformed
Targets(r) ==
    [k \in 1..Len(render[r].processed_images) |-> render[r].processed_images[k].target]

\* two finished renders that differ in the value of columns and in nothing
\* else that they were given or that their fetches returned
DifferOnlyInColumns(a, b) ==
    /\ render[a].pc = "done" /\ render[b].pc = "done"
    /\ SameInputs(a, b)
    /\ render[a].columns # render[b].columns

\* C16 as stated: columns affects the layout density: renders that differ
\* only in the value of columns (2 sparse, 3 medium, 4 dense) differ in their
\* slot positions or in their target sizes.
C16_ColumnsAffectLayout ==
    \A a, b \in Renders :
        DifferOnlyInColumns(a, b)
            => \/ render[a].positions # render[b].positions
               \/ Targets(a) # Targets(b)

\* C16, what the code does: no two renders that differ only in the value of
\* columns differ in anything they compute, up to the bytes returned.
C16_ColumnsIgnored ==
    \A a, b \in Renders :
        DifferOnlyInColumns(a, b)
            => /\ render[a].positions = render[b].positions
               /\ render[a].base_size = render[b].base_size
               /\ Targets(a) = Targets(b)
               /\ render[a].result = render[b].result

\* 0 <= v <= size, for a double v
WithinCanvas(v, size) == ~FLess(v, FromInt(0)) /\ ~FLess(FromInt(size), v)

\* C17 as stated: for every count from 1 to 20 and every jitter, the centre
\* of every slot lies inside the canvas, 0 <= x <= canvas_size and
\* 0 <= y <= canvas_size, so that every image pasted is at least partly
\* visible.
C17_CentresInside ==
    \A r \in Renders :
        /\ Planned(r)
                => \A k \in 1..Len(render[r].positions) :
                        /\ WithinCanvas(render[r].positions[k].x, render[r].canvas_size)
                        /\ WithinCanvas(render[r].positions[k].y, render[r].canvas_size)
        /\ \A k \in 1..Len(Layers(r)) : ~WhollyOutside(Layers(r)[k], render[r].canvas_size)

\* the number of draws the layout of n images takes
SpecLayoutDraws(n) == IF n > 6 THEN 3 * n ELSE 0

\* C18: the draws of a render are consecutive values of the stream seeded
\* with 42.  For more than 6 images the draws 3i+1, 3i+2 and 3i+3 give the x
\* jitter, the y jitter and the rotation of the image of index i, for all the
\* images, and the size variation of the k-th image is draw 3n+k; for 1 to 6
\* images the rotations are those of the fixed table, the layout takes no
\* draw, and the size variation of the k-th image is draw k.
C18_DrawOrder ==
    \A r \in Renders :
        (Planned(r) \/ render[r].error = ResizeMessage)
            => /\ \A j \in 1..Len(render[r].draws) :
                    render[r].draws[j] = AdvanceBy(mt42, j - 1)
               /\ Len(render[r].draws) >= SpecLayoutDraws(render[r].num_images)
               /\ render[r].num_images > 6
                    => \A i \in 0..(render[r].num_images - 1) :
                        /\ render[r].positions[i + 1].x
                              = FAdd(GridTable[render[r].canvas_size, i % 3],
                                     FromInt(randint(-20, 20, render[r].draws[3 * i + 1])))
                        /\ render[r].positions[i + 1].y
                              = FAdd(GridTable[render[r].canvas_size, i \div 3],
                                     FromInt(randint(-20, 20, render[r].draws[3 * i + 2])))
                        /\ render[r].positions[i + 1].rotation
                              = choice(<<-5, -4, -3, -2, 2, 3, 4, 5>>,
                                       render[r].draws[3 * i + 3])
               /\ render[r].num_images \in 1..6
                    => \A k \in 1..render[r].num_images :
                        render[r].positions[k].rotation
                            = SpecSlotTable[render[r].num_images][k][3]
               /\ \A k \in 1..Len(render[r].processed_images) :
                    render[r].processed_images[k].target
                        = TargetTable[render[r].base_size,
                                      render[r].draws[SpecLayoutDraws(render[r].num_images) + k]]
               /\ Len(render[r].draws) - SpecLayoutDraws(render[r].num_images)
                    = Len(render[r].processed_images)
                        + (IF render[r].error = ResizeMessage THEN 1 ELSE 0)
               /\ render[r].pc \in {"place", "done"}
                    => Len(render[r].draws)
                            = SpecLayoutDraws(render[r].num_images) + render[r].num_images

\* a finished render of more than six images in which the x jitter and the
\* y jitter of an image differ, and two size variations differ
C18_Witness ==
    /\ render[1].pc = "done"
    /\ render[1].num_images > 6
    /\ \E i \in 0..(render[1].num_images - 1) :
            randint(-20, 20, render[1].draws[3 * i + 1])
                # randint(-20, 20, render[1].draws[3 * i + 2])
    /\ \E j, k \in 1..Len(render[1].processed_images) :
            render[1].processed_images[j].target # render[1].processed_images[k].target

\* the calls that have left the fetch loop and the client block and have not
\* ended yet
PastFetch == {a \in Renders : render[a].pc \in {"transform", "place"}}

\* C19: a render is suspended only in its fetch loop.  From the first
\* statement after the loop to the return it is the only one to take steps:
\* while a call is between its seeding of the generator and its return, no
\* other call changes, and the generator changes only by the steps of a call
\* that has left its fetch loop.
C19_NoSuspension ==
    /\ [](Cardinality(PastFetch) <= 1 /\ \A a \in PastFetch : running = a)
    /\ [][/\ \A a \in PastFetch : \A b \in Renders \ {a} : render'[b] = render[b]
          /\ rng' # rng
                => \E a \in Renders :
                        /\ render[a].pc \in {"closing", "transform"}
                        /\ render'[a] # render[a]
                        /\ \A b \in Renders \ {a} : render'[b] = render[b]]_vars

\* a call that has pasted some of its images and not all, while another one
\* is suspended in the middle of its fetch loop
C19_Witness ==
    /\ render[1].pc = "place"
    /\ Len(Layers(1)) \in 1..(render[1].num_images - 1)
    /\ render[2].pc = "fetching"
    /\ render[2].idx > 1

\* the call has returned or raised
Ended(me) == me.pc \in {"done", "failed"}

\* C20 as stated: a render, whether it succeeds or fails, leaves no state
\* behind: when it ends, what lies outside its locals, the generator of the
\* process, is as the render found it.
C20_NoStateLeft ==
    [][\A r \in Renders :
            (~Ended(render[r]) /\ Ended(render'[r]))
                => rng' = IF render[r].pc = "closing" THEN rng ELSE render[r].rng_at_seed]_vars

\* the margin add_shadow(offset=6, blur=12) adds to each dimension
ShadowMargin == 6 + 12 * 2

\* C21: every pasted image has its top-left corner at
\* (trunc(slot.x) - W div 2, trunc(slot.y) - H div 2), where W x H is the size
\* of the image after rotation with the shadow margin added; no clamping is
\* applied, so the corner may be negative or past the canvas edge; and the
\* mask of the paste is the pasted image itself (its alpha channel).
C21_PasteOrigin ==
    \A r \in Renders :
        \A k \in 1..Len(Layers(r)) :
            LET layer == Layers(r)[k]
                pos == render[r].positions[k]
                img == render[r].processed_images[k]
                W == rotate(img, pos.rotation).w + ShadowMargin
                H == rotate(img, pos.rotation).h + ShadowMargin
            IN  /\ pos.rotation # 0
                /\ layer.w = W /\ layer.h = H
                /\ layer.paste_x = Trunc(pos.x) - W \div 2
                /\ layer.paste_y = Trunc(pos.y) - H \div 2
                /\ layer.mask = layer.id
                /\ Shadowed(img, pos.rotation).mode = "RGBA"

\* a finished render with a layer whose corner is left of the canvas, one
\* whose corner is below the canvas edge, and one of odd width
C21_Witness ==
    /\ render[1].pc = "done"
    /\ \E i, j, k \in 1..Len(Layers(1)) :
            /\ Layers(1)[i].paste_x < 0
            /\ Layers(1)[j].paste_y >= render[1].canvas_size
            /\ Layers(1)[k].w % 2 = 1
            /\ Layers(1)[k].paste_x # Layers(1)[k].x

\* the draw of the k-th turn of the transform loop: the draws of the layout
\* come first
SizeDraw(r, k) == render[r].draws[LayoutDraws(render[r].num_images) + k]

\* the k-th processed image has its longer side at the target and is framed
\* by a border of 6 on every side
LongerSideAtTarget(r, k) ==
    LET src == render[r].images[k]
        out == render[r].processed_images[k]
    IN  /\ out.target = Trunc(FMul(FromInt(render[r].base_size), SizeVariation[SizeDraw(r, k)]))
        /\ FLess(Lit[90], SizeVariation[SizeDraw(r, k)])
                \/ SizeVariation[SizeDraw(r, k)] = Lit[90]
        /\ FLess(SizeVariation[SizeDraw(r, k)], Lit[110])
        /\ src.w > src.h => out.new_width = out.target
        /\ src.w <= src.h => out.new_height = out.target
        /\ out.w = out.new_width + 12 /\ out.h = out.new_height + 12

\* the other side of the k-th processed image, and its exact value
\* trunc(target * shorter / longer)
OtherSide(r, k) ==
    IF render[r].images[k].w > render[r].images[k].h
    THEN render[r].processed_images[k].new_height
    ELSE render[r].processed_images[k].new_width

ExactOtherSide(r, k) ==
    IF render[r].images[k].w > render[r].images[k].h
    THEN (render[r].processed_images[k].target * render[r].images[k].h)
            \div render[r].images[k].w
    ELSE (render[r].processed_images[k].target * render[r].images[k].w)
            \div render[r].images[k].h

\* the other side as lines 156-162 compute it in double precision
DoubleOtherSide(r, k) ==
    LET src == render[r].images[k]
        t == FromInt(render[r].processed_images[k].target)
        img_ratio == FDiv(FromInt(src.w), FromInt(src.h))
    IN  IF src.w > src.h THEN Trunc(FDiv(t, img_ratio)) ELSE Trunc(FMul(t, img_ratio))

DimsAhead(r) ==
    ResizeTable[TargetTable[render[r].base_size, rng],
                render[r].images[render[r].idx].id]

\* C23: for every surviving image, whatever its width and height and whatever
\* the size draw, new_width and new_height are both at least 1: the resize
\* never raises, and no render fails in the transform stage.
C23_ResizeNeverFails ==
    \A r \in Renders :
        /\ render[r].pc = "transform" => DimsAhead(r).w >= 1 /\ DimsAhead(r).h >= 1
        /\ render[r].error # ResizeMessage
        /\ ~(render[r].pc = "failed" /\ render[r].images # <<>>)

====
